---- MODULE Spec2Model ----
(***************************************************************************)
(* YAudioCord (src/bot.py): the per-guild playback scheduler GuildPlayer,  *)
(* the MusicBot cog that owns the registry of players and the yt-dlp lock, *)
(* and the voice transport the two talk to.                                *)
(*                                                                         *)
(* Everything runs on one asyncio event loop: a coroutine runs without     *)
(* interruption from one await that suspends to the next, so each action   *)
(* below is one such run.  The audio player thread of the transport is the *)
(* only other execution context; it reaches the loop only through          *)
(* call_soon_threadsafe.                                                   *)
(***************************************************************************)
EXTENDS Naturals, Integers, Sequences, FiniteSets

\* ------------------------------------------------------------------ bounds
MaxReq == 2             \* play commands issued in one behaviour; request r resolves to track r
MaxLeave == 2           \* calls of stop(disconnect=True) suspended in disconnect at one time, per guild

Guilds == {1, 2}        \* guild identifiers
Reqs == 1..MaxReq
Tracks == Reqs
None == 0

VARIABLES
    players,    \* MusicBot.players: guild -> identity of its GuildPlayer, None when absent
    nextSid,    \* identity the next constructed GuildPlayer gets
    gp,         \* guild -> the GuildPlayer object, its worker task and the worker's frame
    voice,      \* guild -> guild.voice_client and its audio player
    req,        \* play command r -> its guild, its position in MusicBot.play, and (history,
                \* while it is suspended at 493) whether its start() found a live worker
    ytdl_lock   \* MusicBot.ytdl_lock: [locked, waiters]

vars == <<players, nextSid, gp, voice, req, ytdl_lock>>

\* ------------------------------------------------------------ small helpers
Range(s) == {s[i] : i \in 1..Len(s)}

IsPrefix(s, t) == Len(s) <= Len(t) /\ \A i \in 1..Len(s) : s[i] = t[i]

\* ------------------------------------------------------- GuildPlayer object
\* Fields of GuildPlayer.__init__, then the state of the task in _task and of
\* the frame of its _player_loop coroutine, then history used by the properties.
\*   task      "none" (_task is None), "live" (not done), or how it ended
\*   cancelReq Task.cancel() was called and CancelledError is not yet thrown
\*   wpc       the await the worker is suspended at
\*   source    the local `source`;  finished: the local Event `finished` is set
\*   nlive     number of worker tasks created for this player and not done
\*   stops     calls of stop(disconnect=True) suspended in disconnect() (360) of
\*             the voice client the guild has now
\*   stopsOld  calls of stop(disconnect=True) suspended in disconnect() of a
\*             voice client that is gone since
GuildPlayer ==
    [queue |-> <<>>, current |-> None, voice_channel_id |-> None,
     task |-> "none", stop_flag |-> FALSE,
     cancelReq |-> FALSE, wpc |-> "off", source |-> None, finished |-> FALSE,
     nlive |-> 0, stops |-> 0, stopsOld |-> 0,
     \* history
     clean |-> TRUE,      \* no stop(), no connection or playback-start failure since the worker was created
     order |-> <<>>,      \* while clean: the tracks the present worker is due to play, in insertion order
     started |-> <<>>,    \* while clean: the tracks whose vc.play() succeeded under the present worker
     preload |-> 0,       \* number of tracks in the queue when the present worker was created
     dropped |-> {},      \* tracks dropped because _ensure_voice returned None at 398
     halted |-> FALSE,    \* the playback the worker waits for was halted by VoiceClient.stop()
     attempts |-> 0,      \* calls of vc.play (412, 420) made in the present iteration of the loop
     reconnects |-> 0,    \* calls of _ensure_voice at 417 made in the present iteration
     relaunched |-> FALSE] \* the present worker was created after the previous one crashed

\* History: a stop() or a failure ends the failure-free run of the worker.
Taint(p) == [p EXCEPT !.clean = FALSE, !.order = <<>>, !.started = <<>>, !.preload = 0]

\* History: vc.play() succeeded for track t.
Started(p, t) ==
    [p EXCEPT !.started = IF p.clean THEN Append(@, t) ELSE @, !.halted = FALSE]

\* History: VoiceClient.stop() is called while the worker waits for the end of
\* what the client plays.
Halted(p, v) ==
    [p EXCEPT !.halted = @ \/ (/\ v.state # "none" /\ v.playing # None
                                /\ p.task = "live" /\ p.wpc = "wait"
                                /\ p.source = v.playing)]

\* History: vc.play() is called (412 or 420); _ensure_voice is called at 417.
Attempt(p) == [p EXCEPT !.attempts = @ + 1]

Reconnect(p) == [p EXCEPT !.reconnects = @ + 1]

\* guild.voice_client: "none" (no client), "connected", or "disconnected"
\* (a client exists and is_connected() is false).  playing: the source its
\* audio player plays.  pending: the `finished.set` calls handed to the loop by
\* call_soon_threadsafe and not yet run, named by the track of their Event.
VoiceClient == [state |-> "none", playing |-> None, pending |-> {}]

Done(p) == p.task \in {"returned", "cancelled", "crashed"}

\* The environment is given as F: TRUE when the transport and the caches may
\* fail (a connection that drops or is refused, a play() that raises, a guild or
\* channel missing from the cache), FALSE when they do not.
Lookups(F) == IF F THEN BOOLEAN ELSE {TRUE}

\* What a step leaves: the new player and the new voice client.
Out(p, v) == [p |-> p, v |-> v]

\* _after (405-409), called by the audio player's thread when the playback of
\* track t is over, with the error that ended it or with none: the error is
\* logged, and finished.set of the iteration of t is handed to the loop.
after(v, t, err) == [v EXCEPT !.pending = @ \cup {t}]

\* VoiceClient.stop(): the audio player ends and its thread invokes `after`.
halt_silent(v) == [v EXCEPT !.playing = None]

halt(v) ==
    IF v.playing # None
    THEN after([v EXCEPT !.playing = None], v.playing, FALSE)
    ELSE v

\* --------------------------------------------------------------- start()
start_nocheck(p) ==
    [p EXCEPT !.stop_flag = FALSE, !.task = "live", !.wpc = "start",
              !.cancelReq = FALSE, !.source = None, !.finished = FALSE,
              !.nlive = @ + 1,
              !.order = p.queue, !.started = <<>>, !.preload = Len(p.queue),
              !.clean = TRUE, !.halted = FALSE, !.relaunched = (p.task = "crashed")]

start_nodead(p) ==
    IF p.task \in {"live", "crashed"} THEN p ELSE start_nocheck(p)

start(p) ==
    IF p.task = "live" THEN p ELSE start_nocheck(p)

\* ---------------------------------------------------------- the worker
\* The task ends: by return (393-394 or the while test), or with an exception
\* that _on_done absorbs.
Exit(p, how) ==
    [p EXCEPT !.task = how, !.wpc = "off", !.nlive = @ - 1, !.attempts = 0, !.reconnects = 0]

\* finished = asyncio.Event() at 403.
NewEvent(p) == [p EXCEPT !.finished = FALSE]

\* vc.play(source, after=_after) at 412, with the connection vc in hand.
\* It starts the audio player, or raises ClientException (already playing, or
\* the connection was invalidated meanwhile: 413-416), or raises something
\* else, which leaves the loop and ends the task.
Play1(p0, v, F) ==
    LET p == Attempt(p0)
        t == p.source
    IN
    IF v.state = "connected" /\ v.playing = None
    THEN {Out([Started(p, t) EXCEPT !.wpc = "wait"], [v EXCEPT !.playing = t])}
         \cup (IF F
                THEN {Out([Taint(p) EXCEPT !.wpc = "retrysleep"],
                          [v EXCEPT !.state = "disconnected"]),
                      Out(Exit(Taint(p), "crashed"), v)}
                ELSE {})
    ELSE {Out([Taint(p) EXCEPT !.wpc = "retrysleep"], v)}

\* The retry at 418-425 with the result of the second _ensure_voice: whatever
\* goes wrong sets `finished`, so that finished.wait() at 427 returns at once and
\* the worker suspends in the settle sleep at 428.
Play2(p0, v, haveVc) ==
    LET p == IF haveVc THEN Attempt(p0) ELSE p0
        t == p.source
        giveUp == [p EXCEPT !.finished = TRUE, !.wpc = "settle"]
    IN
    IF haveVc /\ v.state = "connected" /\ v.playing = None
    THEN {Out([Started(p, t) EXCEPT !.wpc = "wait"], [v EXCEPT !.playing = t]),
          Out(giveUp, v)}
    ELSE {Out(giveUp, v)}

\* _ensure_voice up to its await (368-381): "vc" (373-374), "none" (370, 377,
\* 381), or "connect" when it goes on to await channel.connect.  lookup is
\* whether the guild and a voice channel with voice_channel_id are in the cache.
ensure_voice(p, v, lookup) ==
    IF lookup /\ v.state = "connected" THEN "vc"
    ELSE IF ~lookup \/ p.voice_channel_id = None THEN "none"
    ELSE "connect"

\* asyncio.Queue.get on a queue that is not empty (392): the item and the rest.
queue_get_last(q) == [item |-> q[Len(q)], rest |-> SubSeq(q, 1, Len(q) - 1)]

queue_get(q) == [item |-> Head(q), rest |-> Tail(q)]

\* 398-401: _ensure_voice returned None, the track is dropped.
drop_keeps_current(p, t) == [Taint(p) EXCEPT !.dropped = @ \cup {t}]

drop(p, t) == [Taint(p) EXCEPT !.current = None, !.dropped = @ \cup {t}]

\* 393: `if source is None`, the item is the shutdown sentinel.
is_sentinel_never(source) == FALSE

is_sentinel(source) == source = None

\* The loop from `source = await self.queue.get()` returning an item, up to
\* the next await that suspends (392-412) or to the break at 394; the while
\* test (391) and the next get follow a dropped track within the same run.
RECURSIVE Body(_, _, _, _)
Body(p, v, lookup, F) ==
    LET got == queue_get(p.queue)
        t == got.item
        q == [p EXCEPT !.queue = got.rest, !.current = t, !.source = t,
                       !.attempts = 0, !.reconnects = 0]
        ev == ensure_voice(q, v, lookup)
    IN
    IF is_sentinel(t)
    THEN {Out(Exit([p EXCEPT !.queue = got.rest, !.source = t], "returned"), v)}
    ELSE IF ev = "vc" THEN Play1(NewEvent(q), v, F)
    ELSE IF ev = "connect" THEN {Out([q EXCEPT !.wpc = "connect"], v)}
    ELSE LET d == drop(q, t) IN
         IF d.stop_flag THEN {Out(Exit(d, "returned"), v)}
         ELSE IF d.queue = <<>> THEN {Out([d EXCEPT !.wpc = "get"], v)}
         ELSE Body(d, v, lookup, F)

\* The while test at 391 and the queue.get() at 392.
LoopTop(p, v, lookup, F) ==
    IF p.stop_flag THEN {Out(Exit(p, "returned"), v)}
    ELSE IF p.queue = <<>> THEN {Out([p EXCEPT !.wpc = "get"], v)}
    ELSE Body(p, v, lookup, F)

Running(g) == gp[g].task = "live" /\ ~gp[g].cancelReq

Step(g, outs) ==
    \E n \in outs :
        /\ gp' = [gp EXCEPT ![g] = n.p]
        /\ voice' = [voice EXCEPT ![g] = n.v]
        /\ UNCHANGED <<players, nextSid, req, ytdl_lock>>

\* The first run of the task created by start().
WorkerRun(g, F) ==
    /\ Running(g) /\ gp[g].wpc = "start"
    /\ \E lookup \in Lookups(F) : Step(g, LoopTop(gp[g], voice[g], lookup, F))

\* queue.get() returns to the worker that was suspended in it.
WorkerGet(g, F) ==
    /\ Running(g) /\ gp[g].wpc = "get" /\ gp[g].queue # <<>>
    /\ \E lookup \in Lookups(F) : Step(g, Body(gp[g], voice[g], lookup, F))

\* channel.connect() at 384 returns a connection: 398 is passed, 403-412 follow.
ConnectOk(g, F) ==
    /\ Running(g) /\ gp[g].wpc = "connect"
    /\ Step(g, Play1(NewEvent(gp[g]), [voice[g] EXCEPT !.state = "connected"], F))

\* channel.connect() raises (timeout or any error): _ensure_voice returns None
\* (386-388), the track is dropped (398-401) and the loop goes on.
ConnectFail(g) ==
    /\ Running(g) /\ gp[g].wpc = "connect"
    /\ LET d == drop(gp[g], gp[g].source)
       IN \E lookup \in BOOLEAN : Step(g, LoopTop(d, voice[g], lookup, TRUE))

\* finished.wait() at 427 returns once the Event is set.
wait_returns_early(p) == TRUE

wait_returns(p) == p.finished

\* finished.wait() returns; the worker suspends in sleep(0.25) at 428.
WaitDone(g) ==
    /\ Running(g) /\ gp[g].wpc = "wait" /\ wait_returns(gp[g])
    /\ Step(g, {Out([gp[g] EXCEPT !.wpc = "settle"], voice[g])})

\* sleep(0.25) at 428 is over: 429, then the loop again.
SettleDone(g, F) ==
    /\ Running(g) /\ gp[g].wpc = "settle"
    /\ \E lookup \in Lookups(F) :
           Step(g, LoopTop([gp[g] EXCEPT !.current = None, !.attempts = 0, !.reconnects = 0],
                           voice[g], lookup, F))

\* sleep(1.0) at 416 is over: the second _ensure_voice (417).
RetryWake(g) ==
    /\ Running(g) /\ gp[g].wpc = "retrysleep"
    /\ \E lookup \in BOOLEAN :
         LET p == Reconnect(gp[g])
             ev == ensure_voice(p, voice[g], lookup)
         IN
         IF ev = "connect"
         THEN Step(g, {Out([p EXCEPT !.wpc = "reconnect"], voice[g])})
         ELSE Step(g, Play2(p, voice[g], ev = "vc"))

\* The channel.connect() of the second _ensure_voice returns or raises.
ReconnectDone(g) ==
    /\ Running(g) /\ gp[g].wpc = "reconnect"
    /\ \E ok \in BOOLEAN :
         Step(g, Play2(gp[g],
                       IF ok THEN [voice[g] EXCEPT !.state = "connected"] ELSE voice[g],
                       ok))

\* CancelledError is thrown into the worker at the await it is suspended at;
\* nothing in _player_loop or _ensure_voice catches it, _on_done absorbs it.
WorkerCancelled(g) ==
    /\ gp[g].task = "live" /\ gp[g].cancelReq
    /\ Step(g, {Out([Exit(gp[g], "cancelled") EXCEPT !.cancelReq = FALSE], voice[g])})

\* ------------------------------------------------------------ the transport
\* The audio player reaches the end of the source, or fails: its thread calls
\* _after, as after a halt.
PlaybackEnds(g) ==
    /\ voice[g].playing # None
    /\ \E err \in BOOLEAN :
           voice' = [voice EXCEPT ![g] = after([voice[g] EXCEPT !.playing = None],
                                               voice[g].playing, err)]
    /\ UNCHANGED <<players, nextSid, gp, req, ytdl_lock>>

\* The loop runs a finished.set handed over by _after (409).  It sets the Event
\* of the iteration that plays track t; the worker waits on it only as long as
\* that iteration is the present one.
Deliver_any(g, t) ==
    /\ t \in voice[g].pending
    /\ voice' = [voice EXCEPT ![g].pending = @ \ {t}]
    /\ gp' = [gp EXCEPT ![g].finished = IF gp[g].task = "live" THEN TRUE ELSE @]
    /\ UNCHANGED <<players, nextSid, req, ytdl_lock>>

Deliver(g, t) ==
    /\ t \in voice[g].pending
    /\ voice' = [voice EXCEPT ![g].pending = @ \ {t}]
    /\ gp' = [gp EXCEPT ![g].finished = IF gp[g].task = "live" /\ gp[g].source = t
                                        THEN TRUE ELSE @]
    /\ UNCHANGED <<players, nextSid, req, ytdl_lock>>

\* The connection of the guild comes up: the connect or move_to of join
\* (463-474), or the transport's own reconnect.
VoiceUp(g) ==
    /\ gp[g].voice_channel_id # None
    /\ voice[g].state # "connected"
    /\ voice' = [voice EXCEPT ![g].state = "connected"]
    /\ UNCHANGED <<players, nextSid, gp, req, ytdl_lock>>

\* The connection drops; the client stays registered with the guild.
VoiceDrop(g) ==
    /\ voice[g].state = "connected"
    /\ voice' = [voice EXCEPT ![g].state = "disconnected"]
    /\ UNCHANGED <<players, nextSid, gp, req, ytdl_lock>>

\* ------------------------------------------------------------ the registry
\* MusicBot.get_player: the players mapping after the call and the player it
\* returns.
get_player_new(g) ==
    [players |-> [players EXCEPT ![g] = nextSid], nextSid |-> nextSid + 1,
     player |-> GuildPlayer]

get_player(g) ==
    IF players[g] = None
    THEN [players |-> [players EXCEPT ![g] = nextSid], nextSid |-> nextSid + 1,
          player |-> GuildPlayer]
    ELSE [players |-> players, nextSid |-> nextSid, player |-> gp[g]]

\* ------------------------------------------------------------ the commands
\* join, 458-461: the target channel is recorded and the worker started; the
\* connection it then awaits comes up with VoiceUp, or does not.
Join(g) ==
    LET r == get_player(g) IN
    /\ players' = r.players /\ nextSid' = r.nextSid
    /\ gp' = [gp EXCEPT ![g] = start([r.player EXCEPT !.voice_channel_id = 1])]
    /\ UNCHANGED <<voice, req, ytdl_lock>>

\* play, 487-493: with a connected voice client, the player is looked up and
\* started, and the command suspends in ctx.send.  Requests are numbered in
\* the order they are issued.
PlayStart(r, g) ==
    /\ req[r].pc = "idle" /\ \A x \in 1..(r - 1) : req[x].pc # "idle"
    /\ voice[g].state = "connected"
    /\ LET l == get_player(g) IN
       /\ players' = l.players /\ nextSid' = l.nextSid
       /\ gp' = [gp EXCEPT ![g] = start(l.player)]
    /\ req' = [req EXCEPT ![r] = [pc |-> "sending", guild |-> g,
                                  found |-> get_player(g).player.task = "live"]]
    /\ UNCHANGED <<voice, ytdl_lock>>

\* asyncio.Lock.acquire without suspending: the lock is free and nobody waits.
CanAcquire_any(l) == TRUE

CanAcquire(l) == ~l.locked /\ l.waiters = <<>>

\* asyncio.Lock.release, on leaving the `async with` of 496.
release_never(l) == l

release(l) == [l EXCEPT !.locked = FALSE]

\* play, 496: `async with self.ytdl_lock`, then create_source suspends in
\* run_in_executor (290) with the lock held; or the command waits for the lock.
PlayEnter(r) ==
    /\ req[r].pc = "sending"
    /\ IF CanAcquire(ytdl_lock)
       THEN /\ ytdl_lock' = [ytdl_lock EXCEPT !.locked = TRUE]
            /\ req' = [req EXCEPT ![r].pc = "resolving", ![r].found = FALSE]
       ELSE /\ ytdl_lock' = [ytdl_lock EXCEPT !.waiters = Append(@, r)]
            /\ req' = [req EXCEPT ![r].pc = "waitlock", ![r].found = FALSE]
    /\ UNCHANGED <<players, nextSid, gp, voice>>

\* The first waiter, woken by release(), takes the lock.
PlayAcquire(r) ==
    /\ req[r].pc = "waitlock"
    /\ ~ytdl_lock.locked /\ Head(ytdl_lock.waiters) = r
    /\ ytdl_lock' = [locked |-> TRUE, waiters |-> Tail(ytdl_lock.waiters)]
    /\ req' = [req EXCEPT ![r].pc = "resolving"]
    /\ UNCHANGED <<players, nextSid, gp, voice>>

\* queue.put(source) at 503; the queue is unbounded, so put never suspends.
put(p, t) ==
    [p EXCEPT !.queue = Append(@, t), !.order = IF p.clean THEN Append(@, t) ELSE @]

\* 497-503 once create_source is over: the source goes in the queue, unless
\* create_source raised and the command returned at 501.
enqueue_always(p, t, ok) == put(p, t)

enqueue(p, t, ok) == IF ok THEN put(p, t) ELSE p

\* create_source returns a source (307): the lock is released on leaving the
\* `async with`, and the source is put in the queue of the player taken at 490.
ResolveOk_shared(r) ==
    /\ req[r].pc = "resolving"
    /\ ytdl_lock' = release(ytdl_lock)
    /\ gp' = [g \in Guilds |-> IF players[g] # None THEN enqueue(gp[g], r, TRUE) ELSE gp[g]]
    /\ req' = [req EXCEPT ![r].pc = "done"]
    /\ UNCHANGED <<players, nextSid, voice>>

ResolveOk(r) ==
    /\ req[r].pc = "resolving"
    /\ ytdl_lock' = release(ytdl_lock)
    /\ gp' = [gp EXCEPT ![req[r].guild] = enqueue(@, r, TRUE)]
    /\ req' = [req EXCEPT ![r].pc = "done"]
    /\ UNCHANGED <<players, nextSid, voice>>

\* create_source raises (293, 299, or yt-dlp itself): 499-500, the command
\* suspends in msg.edit inside the `async with`.
ResolveFail(r) ==
    /\ req[r].pc = "resolving"
    /\ gp' = [gp EXCEPT ![req[r].guild] = enqueue(@, r, FALSE)]
    /\ req' = [req EXCEPT ![r].pc = "failmsg"]
    /\ UNCHANGED <<players, nextSid, voice, ytdl_lock>>

\* msg.edit returns, `return` at 501 leaves the `async with`: the lock is released.
FailReport(r) ==
    /\ req[r].pc = "failmsg"
    /\ ytdl_lock' = release(ytdl_lock)
    /\ req' = [req EXCEPT ![r].pc = "failed"]
    /\ UNCHANGED <<players, nextSid, gp, voice>>

\* The queue of a GuildPlayer takes tracks and None (317), the value that makes
\* the worker leave its loop (393-394).  No command of MusicBot inserts None;
\* this is the insertion by a caller that holds the player: queue.put_nowait(None).
PutSentinel(g) ==
    /\ players[g] # None
    /\ None \notin Range(gp[g].queue)
    /\ gp' = [gp EXCEPT ![g].queue = Append(@, None)]
    /\ UNCHANGED <<players, nextSid, voice, req, ytdl_lock>>

\* skip, 508-509.
Skip(g) ==
    /\ voice[g].state # "none" /\ voice[g].playing # None
    /\ voice' = [voice EXCEPT ![g] = halt(voice[g])]
    /\ gp' = [gp EXCEPT ![g] = Halted(@, voice[g])]
    /\ UNCHANGED <<players, nextSid, req, ytdl_lock>>

\* 364-365.
cancel(p) == IF p.task = "live" THEN [p EXCEPT !.cancelReq = TRUE] ELSE p

\* GuildPlayer.stop up to its await, or to its end when it does not suspend
\* (341-365).
\* lookup: bot.get_guild finds the guild in the cache (352); stopOk: vc.stop()
\* at 355 returns, FALSE when it raises (356-357) and leaves the client as it is.
stop(p, v, disconnect, lookup, stopOk) ==
    LET has == lookup /\ v.state # "none"
        p0 == [Taint(p) EXCEPT !.stop_flag = TRUE, !.queue = <<>>, !.current = None]
        p1 == IF has /\ stopOk THEN Halted(p0, v) ELSE p0
        v1 == IF has /\ stopOk THEN halt(v) ELSE v
    IN
    IF disconnect /\ has
    THEN Out([p1 EXCEPT !.stops = @ + 1], v1)
    ELSE Out(cancel(p1), v1)

\* The calls of stop() of player p that are suspended in disconnect().
Suspended(p) == p.stops + p.stopsOld

\* The commands stop (520-521) and leave (530-531), up to the await at 360 or
\* to the end of GuildPlayer.stop.
Stop(g, disconnect, F) ==
    LET r == get_player(g) IN
    /\ disconnect => Suspended(r.player) < MaxLeave
    /\ players' = r.players /\ nextSid' = r.nextSid
    /\ \E lookup, stopOk \in Lookups(F) :
         LET n == stop(r.player, voice[g], disconnect, lookup, stopOk) IN
         /\ gp' = [gp EXCEPT ![g] = n.p]
         /\ voice' = [voice EXCEPT ![g] = n.v]
    /\ UNCHANGED <<req, ytdl_lock>>

\* voice_client.disconnect(force=True) at 360 returns (the client is gone, and
\* with it whatever it played) or raises (361-362); then 364-365.
\* own: the client this stop() disconnects is the one the guild has now; when
\* it goes, the other calls suspended on it are left with a client that is gone.
stop_resume(p, v, ok, own) ==
    IF own
    THEN IF ok
         THEN Out(cancel([p EXCEPT !.stops = 0, !.stopsOld = @ + p.stops - 1]),
                  [halt(v) EXCEPT !.state = "none"])
         ELSE Out(cancel([p EXCEPT !.stops = @ - 1]), v)
    ELSE Out(cancel([p EXCEPT !.stopsOld = @ - 1]), v)

StopResume(g, F) ==
    \/ /\ gp[g].stops > 0
       /\ \E ok \in Lookups(F) : Step(g, {stop_resume(gp[g], voice[g], ok, TRUE)})
    \/ /\ gp[g].stopsOld > 0
       /\ Step(g, {stop_resume(gp[g], voice[g], TRUE, FALSE)})

\* now, 540-544: what the status query reports.
now_playing(g) == gp[g].current

NowPlaying(g) ==
    LET r == get_player(g) IN
    /\ players' = r.players /\ nextSid' = r.nextSid
    /\ gp' = [gp EXCEPT ![g] = r.player]
    /\ UNCHANGED <<voice, req, ytdl_lock>>

\* ------------------------------------------------------------ specification
Init ==
    /\ players = [g \in Guilds |-> None]
    /\ nextSid = 1
    /\ gp = [g \in Guilds |-> GuildPlayer]
    /\ voice = [g \in Guilds |-> VoiceClient]
    /\ req = [r \in Reqs |-> [pc |-> "idle", guild |-> None, found |-> FALSE]]
    /\ ytdl_lock = [locked |-> FALSE, waiters |-> <<>>]

\* The worker, the transport and the commands of guild g.  With F the
\* environment may fail; without, the actions that are failures are left out.
\* The worker's steps while the cached voice client stays connected.
Worker(g, F) ==
    \/ WorkerRun(g, F) \/ WorkerGet(g, F)
    \/ WaitDone(g) \/ SettleDone(g, F)

\* The worker's steps after it found no connected voice client (383-388) or
\* after vc.play raised (413-425).
WorkerFaults(g) ==
    \/ ConnectOk(g, TRUE) \/ ConnectFail(g) \/ RetryWake(g) \/ ReconnectDone(g)

Transport(g) ==
    \/ PlaybackEnds(g) \/ VoiceUp(g)
    \/ \E t \in Tracks : Deliver(g, t)

Command(g, F) ==
    \/ Join(g) \/ Skip(g) \/ NowPlaying(g) \/ StopResume(g, F)
    \/ \E d \in BOOLEAN : Stop(g, d, F)
    \/ \E r \in Reqs : PlayStart(r, g)

Request(r) ==
    \/ PlayEnter(r) \/ PlayAcquire(r) \/ ResolveOk(r) \/ ResolveFail(r) \/ FailReport(r)

\* One guild with an environment that may fail at every point.
Next ==
    \/ \E g \in {1} : \/ Worker(g, TRUE) \/ WorkerFaults(g) \/ WorkerCancelled(g)
                      \/ Transport(g) \/ VoiceDrop(g)
                      \/ Command(g, TRUE)
    \/ \E r \in Reqs : Request(r)

Spec == Init /\ [][Next]_vars

\* All guilds, with an environment that does not fail, under the commands
\* join, play, stop and now.
NextPair ==
    \/ \E g \in Guilds : \/ Worker(g, FALSE) \/ WorkerCancelled(g) \/ Transport(g)
                         \/ Join(g) \/ Stop(g, FALSE, FALSE) \/ NowPlaying(g)
                         \/ \E r \in Reqs : PlayStart(r, g)
    \/ \E r \in Reqs : Request(r)

SpecPair == Init /\ [][NextPair]_vars

\* All guilds, with an environment that does not fail, under join and play.
NextGate ==
    \/ \E g \in Guilds : \/ Worker(g, FALSE) \/ Transport(g)
                         \/ Join(g)
                         \/ \E r \in Reqs : PlayStart(r, g)
    \/ \E r \in Reqs : Request(r)

\* All guilds, with an environment that does not fail, under the commands
\* join, play, skip and stop.
NextIso ==
    \/ \E g \in Guilds : \/ Worker(g, FALSE) \/ WorkerCancelled(g) \/ Transport(g)
                         \/ Join(g) \/ Skip(g) \/ Stop(g, FALSE, FALSE)
                         \/ \E r \in Reqs : PlayStart(r, g)
    \/ \E r \in Reqs : Request(r)

SpecIso == Init /\ [][NextIso]_vars

\* One guild, with an environment that does not fail, under join and play and
\* with a caller that inserts the shutdown sentinel.
NextSentinel ==
    \/ \E g \in {1} : \/ Worker(g, FALSE) \/ Transport(g)
                      \/ Join(g) \/ PutSentinel(g)
                      \/ \E r \in Reqs : PlayStart(r, g)
    \/ \E r \in Reqs : Request(r)

SpecSentinel == Init /\ [][NextSentinel]_vars

\* The loop resumes every command that is ready, and every resolution ends:
\* create_source returns or raises.
GateFair ==
    \A r \in Reqs :
        /\ WF_vars(PlayEnter(r)) /\ WF_vars(PlayAcquire(r)) /\ WF_vars(FailReport(r))
        /\ WF_vars(ResolveOk(r) \/ ResolveFail(r))

SpecGate == Init /\ [][NextGate]_vars /\ GateFair

\* The event loop runs every callback and every task that is ready: the
\* finished.set handed over by _after, the worker whose Event is set, whose sleep
\* is over or that is cancelled.
LoopFair(g) ==
    /\ WF_vars(WaitDone(g)) /\ WF_vars(SettleDone(g, TRUE)) /\ WF_vars(WorkerCancelled(g))
    /\ \A t \in Tracks : WF_vars(Deliver(g, t))

\* One guild with an environment that may fail at every point, under join,
\* play, skip, stop and leave, with resolutions that succeed.
NextHalt ==
    \/ \E g \in {1} : \/ Worker(g, TRUE) \/ WorkerFaults(g) \/ WorkerCancelled(g)
                      \/ Transport(g) \/ VoiceDrop(g)
                      \/ Join(g) \/ Skip(g) \/ StopResume(g, TRUE)
                      \/ \E d \in BOOLEAN : Stop(g, d, TRUE)
                      \/ \E r \in Reqs : PlayStart(r, g)
    \/ \E r \in Reqs : PlayEnter(r) \/ PlayAcquire(r) \/ ResolveOk(r)

SpecFair == Init /\ [][NextHalt]_vars /\ LoopFair(1)

\* One guild, with an environment that does not fail, under join, play and
\* stop; the loop runs every worker step that is ready, and every playback that
\* started comes to its end.
NextLive ==
    \/ \E g \in {1} : \/ Worker(g, FALSE) \/ WorkerCancelled(g) \/ Transport(g)
                      \/ Join(g) \/ Stop(g, FALSE, FALSE)
                      \/ \E r \in Reqs : PlayStart(r, g)
    \/ \E r \in Reqs : Request(r)

LiveFair(g) ==
    /\ WF_vars(WorkerRun(g, FALSE)) /\ WF_vars(WorkerGet(g, FALSE))
    /\ WF_vars(WaitDone(g)) /\ WF_vars(SettleDone(g, FALSE)) /\ WF_vars(WorkerCancelled(g))
    /\ WF_vars(PlaybackEnds(g))
    /\ \A t \in Tracks : WF_vars(Deliver(g, t))

SpecLive == Init /\ [][NextLive]_vars /\ LiveFair(1)

\* ================================================================ properties
Last(s) == s[Len(s)]

\* The tracks whose playback started and whose completion is not yet delivered
\* to the loop: playing, or with the callback's finished.set still to run.
Undelivered(g) == (IF voice[g].playing = None THEN {} ELSE {voice[g].playing})
                  \cup voice[g].pending

\* C1: as long as a worker has met no stop() and no connection or playback-start
\* failure, the tracks whose playback it started are, in order, the first of
\* the tracks inserted for it; the transport plays no other track than the last
\* one started, which is then the active track; and every track started before
\* the last one has had its completion notification delivered.
FifoOneAtATime ==
    \A g \in Guilds :
        LET p == gp[g] IN
        p.clean =>
            /\ IsPrefix(p.started, p.order)
            /\ voice[g].playing \in Range(p.started) =>
                   /\ voice[g].playing = Last(p.started)
                   /\ p.current = voice[g].playing
            /\ \A i \in 1..(Len(p.started) - 1) : p.started[i] \notin Undelivered(g)

\* Two tracks were inserted in the order 2, 1 and played in that order.
FifoOneAtATimeWitness ==
    /\ gp[1].clean /\ gp[1].order = <<2, 1>> /\ gp[1].started = <<2, 1>>
    /\ voice[1].playing = 1

\* A step in which a call of GuildPlayer.stop returns: a stop that does not
\* suspend (disconnect false, or no guild or voice client found), or the
\* resumption at 364 of one that was suspended in disconnect.
StopReturns(g) ==
    \/ (\E d \in BOOLEAN : Stop(g, d, TRUE)) /\ Suspended(gp'[g]) = Suspended(gp[g])
    \/ StopResume(g, TRUE)

\* C2: when stop(disconnect) returns, the queue of the session is empty and
\* its active track is empty, whatever the worker and concurrent play commands
\* did meanwhile.
StopLeavesEmpty ==
    [][\A g \in Guilds :
          StopReturns(g) => gp'[g].queue = <<>> /\ gp'[g].current = None]_vars


\* A step in which start() is called for the session of guild g: by join (461)
\* or by play (491).
StartCalled(g) == Join(g) \/ \E r \in Reqs : PlayStart(r, g)

\* C3: a session never has more than one worker task that is not done, and a
\* start() on a session whose worker is not done creates no worker and leaves
\* the stop flag, the queue, the active track and the worker as they are.
OneWorkerStartIdempotent ==
    /\ [](\A g \in Guilds : gp[g].nlive <= 1 /\ (gp[g].nlive = 1 <=> gp[g].task = "live"))
    /\ [][\A g \in Guilds :
            (gp[g].task = "live" /\ StartCalled(g)) =>
                /\ gp'[g].nlive = gp[g].nlive
                /\ gp'[g].task = "live"
                /\ gp'[g].stop_flag = gp[g].stop_flag
                /\ gp'[g].queue = gp[g].queue
                /\ gp'[g].current = gp[g].current
                /\ gp'[g].wpc = gp[g].wpc
                /\ gp'[g].cancelReq = gp[g].cancelReq]_vars

\* A play command whose start() found the worker live, which is at work on a
\* track with another one queued.
OneWorkerStartIdempotentWitness ==
    \E r \in Reqs :
        /\ req[r].pc = "sending" /\ req[r].found
        /\ gp[req[r].guild].nlive = 1
        /\ gp[req[r].guild].wpc = "wait"


\* The worker waits at 427 for the end of a playback that was halted.
WaitsHalted(g) == gp[g].task = "live" /\ gp[g].wpc = "wait" /\ gp[g].halted

\* C4: a worker suspended at the completion-wait of a track whose playback is
\* halted (by skip or by stop()) leaves that wait (the history `halted` lasts
\* until the worker starts another playback, so the wait that ends is the halted
\* one): it goes on to the next item, blocks on the empty queue, or ends; and a
\* worker that stop() cancelled ends.  Stated for guild 1, the guild that acts
\* in the specification it is checked under.
HaltUnblocks ==
    \A g \in {1} :
        /\ WaitsHalted(g) ~> ~WaitsHalted(g)
        /\ (gp[g].task = "live" /\ gp[g].cancelReq) ~> (gp[g].task # "live")

\* Skip halted the playback the worker waits for, and no stop() is involved.
HaltUnblocksWitness ==
    /\ gp[1].task = "live" /\ gp[1].wpc = "wait" /\ gp[1].halted
    /\ ~gp[1].cancelReq /\ ~gp[1].stop_flag /\ ~gp[1].finished


\* The tracks that are anywhere in the session of guild g or in its transport.
Held(g) ==
    Range(gp[g].queue) \cup ({gp[g].current, gp[g].source, voice[g].playing} \ {None})
    \cup voice[g].pending \cup gp[g].dropped

\* C5: a play command whose resolution failed inserts nothing: the step in which
\* create_source raises and the step in which the failure has been reported leave
\* every session as it was, and the only tracks ever found in a queue (or further
\* on, with the worker or the transport) are those of commands whose resolution
\* succeeded, each in the session of its own guild.
FailedResolveInsertsNothing ==
    /\ [](\A g \in Guilds : \A t \in Held(g) : req[t].pc = "done" /\ req[t].guild = g)
    /\ [][\A r \in Reqs :
            (req'[r].pc \in {"failmsg", "failed"} /\ req'[r].pc # req[r].pc) => gp' = gp]_vars

\* Command 1 failed and reported it while track 2 was in the queue of the same guild.
FailedResolveInsertsNothingWitness ==
    /\ req[1].pc = "failed" /\ req[1].guild = 1
    /\ req[2].guild = 1 /\ gp[1].queue = <<2>>


\* A dropped track is nowhere any more: not in the queue, not the active track,
\* not with the transport, and the worker is at no await of its iteration.
DroppedForGood(g) ==
    \A t \in gp[g].dropped :
        /\ t \notin Range(gp[g].queue)
        /\ gp[g].current # t
        /\ voice[g].playing # t /\ t \notin voice[g].pending
        /\ gp[g].source = t => gp[g].wpc \in {"get", "off"}

\* What the worker of guild g has done at the end of a step in which it dropped
\* tracks at 398-401: it is suspended in get() on the empty queue, or it has
\* taken a following track; or, when mayReturn, it has returned on the stop flag.
\* (A play() of the following track that raises in the same run ends the task
\* at that track, not at the dropped one.)
AfterDrop(g, mayReturn) ==
    LET new == gp'[g].dropped \ gp[g].dropped IN
    new # {} =>
        /\ gp'[g].current \notin new
        /\ \/ gp'[g].task = "live" /\ gp'[g].wpc = "get" /\ gp'[g].queue = <<>>
           \/ /\ gp'[g].task \in {"live", "crashed"}
              /\ gp'[g].source \in Range(gp[g].queue) \ gp'[g].dropped
              /\ gp'[g].current = gp'[g].source
           \/ mayReturn /\ gp[g].stop_flag /\ gp'[g].task = "returned"

\* C6 as stated: when _ensure_voice yields no connection the worker drops the
\* track for good, stays alive and goes on to the next item.
DropKeepsWorkerAlive ==
    /\ [](\A g \in Guilds : DroppedForGood(g))
    /\ [][\A g \in Guilds : AfterDrop(g, FALSE)]_vars

\* C6, amended: the same, except that a worker that finds the stop flag set at
\* the while test after the drop (a stop(disconnect=True) is suspended in
\* disconnect) returns instead of taking the next item.
DropAndContinue ==
    /\ [](\A g \in Guilds : DroppedForGood(g))
    /\ [][\A g \in Guilds : AfterDrop(g, TRUE)]_vars

\* The worker dropped track 1 for want of a connection and is at work on track 2.
DropAndContinueWitness ==
    /\ gp[1].dropped = {1} /\ gp[1].task = "live"
    /\ gp[1].current = 2 /\ gp[1].wpc = "wait" /\ ~gp[1].stop_flag


\* The play commands that hold the resolution gate: in create_source, or
\* reporting its failure before they leave the `async with`.
InGate == {r \in Reqs : req[r].pc \in {"resolving", "failmsg"}}

\* C7: at most one play command is inside the resolution gate, whatever the
\* guilds of the commands; create_source runs only inside it.
OneResolutionAtATime == Cardinality(InGate) <= 1

\* A command of guild 1 resolves while a command of guild 2 waits for the gate.
OneResolutionAtATimeWitness ==
    \E r, w \in Reqs :
        /\ req[r].pc = "resolving" /\ req[r].guild = 1
        /\ req[w].pc = "waitlock" /\ req[w].guild = 2

\* C8: the gate is held exactly while a command is inside it, so it is released
\* after a resolution that succeeded and after one that failed; a command that
\* waits for the gate gets it and a resolution that began ends; and while a
\* command of one guild holds the gate, the worker of another guild whose
\* queue holds a track can take it.
GateNeverBlocks ==
    /\ [](ytdl_lock.locked <=> InGate # {})
    /\ \A r \in Reqs : (req[r].pc = "waitlock") ~> (req[r].pc = "resolving")
    /\ \A r \in Reqs : (req[r].pc = "resolving") ~> (req[r].pc \in {"done", "failed"})
    /\ [](\A g \in Guilds :
            (/\ \E r \in InGate : req[r].guild # g
             /\ Running(g) /\ gp[g].wpc = "get" /\ gp[g].queue # <<>>)
                => ENABLED WorkerGet(g, FALSE))

\* A command of guild 1 holds the gate while the worker of guild 2, blocked in
\* get(), has a track in its queue.
GateNeverBlocksWitness ==
    /\ \E r \in InGate : req[r].guild = 1
    /\ Running(2) /\ gp[2].wpc = "get" /\ gp[2].queue # <<>>


\* The place of track t in the sequence s, 0 when it is not in it.
IndexOf(s, t) == IF t \in Range(s) THEN CHOOSE i \in 1..Len(s) : s[i] = t ELSE 0

\* C9: for a worker that met no stop() and no failure (as the one started on a
\* queue that holds A then B): the status query reports a track only when the
\* track inserted before it has been played and its completion notification has
\* been delivered; it reports a track from its dequeue on, as long as its
\* completion is undelivered and until the worker moves on; and when the report
\* changes, it changes to the track inserted next, or to none if there is none.
StatusFollowsPlayback ==
    /\ [](\A g \in Guilds :
            LET p == gp[g]
                k == IndexOf(p.order, now_playing(g))
            IN  p.clean =>
                    /\ k >= 2 => /\ p.order[k - 1] \in Range(p.started)
                                 /\ p.order[k - 1] \notin Undelivered(g)
                    /\ (p.task = "live" /\ p.wpc \in {"connect", "wait", "settle"})
                           => now_playing(g) = p.source
                    /\ (p.started # <<>> /\ Last(p.started) \in Undelivered(g))
                           => now_playing(g) = Last(p.started))
    /\ [][\A g \in Guilds :
            LET k == IndexOf(gp[g].order, gp[g].current) IN
            (gp[g].clean /\ gp'[g].clean /\ k >= 1 /\ gp'[g].current # gp[g].current) =>
                gp'[g].current = IF k < Len(gp[g].order) THEN gp[g].order[k + 1] ELSE None]_vars

\* The worker was started on a queue that held two tracks; it played the first
\* to its end and now plays the second, which the status query reports.
StatusFollowsPlaybackWitness ==
    /\ gp[1].clean /\ gp[1].preload = 2
    /\ gp[1].started = gp[1].order /\ Len(gp[1].order) = 2
    /\ now_playing(1) = gp[1].order[2] /\ voice[1].playing = gp[1].order[2]


\* A step in which get_player(g) is called: by join, play, stop or now.
Looked(g) ==
    \/ Join(g) \/ NowPlaying(g)
    \/ \E d \in BOOLEAN : Stop(g, d, TRUE)
    \/ \E r \in Reqs : PlayStart(r, g)

\* C10: the registry holds one session for each guild that was looked up and
\* none for the others: as many sessions were constructed as there are entries,
\* no two guilds share one, and a guild without entry has the state of a
\* session never touched.  A lookup of an absent guild stores a session (fresh
\* and without worker when the caller does nothing more to it), a lookup of a
\* present guild leaves the registry as it is, and no step removes or replaces
\* an entry.
RegistryOnePerGuild ==
    /\ [](/\ Cardinality({g \in Guilds : players[g] # None}) = nextSid - 1
          /\ \A g, h \in Guilds :
                 (g # h /\ players[g] # None) => players[g] # players[h]
          /\ \A g \in Guilds : players[g] = None => gp[g] = GuildPlayer)
    /\ [][\A g \in Guilds :
            /\ players[g] # None => players'[g] = players[g]
            /\ (players[g] = None /\ Looked(g)) => players'[g] # None
            /\ (players[g] = None /\ players'[g] # None) => Looked(g)
            /\ (players[g] = None /\ NowPlaying(g)) => gp'[g] = GuildPlayer]_vars

\* Both guilds have their session; the one of guild 1 was looked up again by a
\* play command after join had created it and has its worker at work.
RegistryOnePerGuildWitness ==
    /\ players[1] # None /\ players[2] # None /\ players[1] # players[2]
    /\ gp[1].wpc = "wait" /\ gp[1].current # None
    /\ gp[2].task = "none"


\* C11: the active track is set only while the worker is inside the
\* play-and-wait cycle of that track: it is empty whenever the session has no
\* live worker (never started, returned, cancelled or crashed) and whenever the
\* worker is suspended in queue.get(), so that no dequeue happens with an active
\* track set; and when set, it is the track the worker is at work on.
CurrentOnlyInCycle ==
    \A g \in Guilds :
        /\ gp[g].task # "live" => gp[g].current = None
        /\ (gp[g].task = "live" /\ gp[g].wpc = "get") => gp[g].current = None
        /\ (gp[g].task = "live" /\ gp[g].current # None) => gp[g].current = gp[g].source


\* C12: a worker that waited for the completion of a playback it started (no
\* failure and no stop() on its way) and whose completion notification was
\* delivered has cleared the active track when it is in the settle delay at
\* 428: a status query made during the delay reports no track.
ClearedBeforeSettle ==
    \A g \in Guilds :
        (gp[g].task = "live" /\ gp[g].wpc = "settle" /\ gp[g].clean)
            => now_playing(g) = None


\* A step in which the worker of guild g leaves the retry path (416-425) without
\* a playback started: the second _ensure_voice returned None or the second
\* vc.play raised.
RetryGivenUp(g) ==
    /\ Running(g) /\ gp[g].wpc \in {"retrysleep", "reconnect"}
    /\ gp'[g].wpc \notin {"retrysleep", "reconnect", "wait"}

\* The number of attempts and the drop: for the track it
\* dequeued last the worker calls vc.play at most twice and
\* _ensure_voice at 417 at most once; the second call of play comes only after
\* the first one raised ClientException and the reconnect gave a connection;
\* the track is never back in the queue; and when the reconnect gives none or
\* the second play raises, `finished` is set by the worker itself, so that it
\* passes the completion-wait at once (to the settle delay and the next item)
\* while the transport plays nothing of it and owes no callback for it.
RetryOnceThenDrop ==
    /\ [](\A g \in Guilds :
            LET p == gp[g] IN
            /\ p.attempts <= 2 /\ p.reconnects <= 1
            /\ p.attempts = 2 => p.reconnects = 1
            /\ p.reconnects = 1 => p.attempts >= 1
            /\ (p.task = "live" /\ p.wpc \in {"retrysleep", "reconnect"}) => p.attempts = 1
            /\ (p.task = "live" /\ p.source # None) => p.source \notin Range(p.queue)
            /\ (Running(g) /\ p.wpc = "settle") => ENABLED SettleDone(g, TRUE))
    /\ [][\A g \in Guilds :
            RetryGivenUp(g) =>
                /\ gp'[g].task = "live" /\ gp'[g].wpc = "settle" /\ gp'[g].finished
                /\ gp'[g].source = gp[g].source
                /\ gp'[g].queue = gp[g].queue
                /\ voice'[g].playing = voice[g].playing
                /\ voice'[g].pending = voice[g].pending]_vars

\* The second vc.play for track 1 raised too: the worker is in the settle delay
\* with `finished` set by itself, and track 2 waits in the queue.
RetryOnceThenDropWitness ==
    /\ gp[1].task = "live" /\ gp[1].wpc = "settle" /\ gp[1].source = 1
    /\ gp[1].attempts = 2 /\ gp[1].reconnects = 1 /\ gp[1].finished
    /\ ~gp[1].cancelReq /\ gp[1].queue = <<2>> /\ voice[1].playing = None

\* A step in which the first vc.play of an iteration (412) raises
\* discord.ClientException and the worker goes to the retry (413-416).
FirstPlayRaised(g) ==
    /\ Running(g) /\ gp[g].wpc # "retrysleep"
    /\ gp'[g].task = "live" /\ gp'[g].wpc = "retrysleep"

\* C13: for each dequeued track the worker makes at most two playback-start
\* attempts and at most one reconnect, and drops the track when the reconnect
\* gives no connection or the second attempt fails (RetryOnceThenDrop); and it
\* goes to the reconnect and the second attempt only when the first attempt
\* failed because the client was not connected: the client it called play on
\* is not connected when the call has raised.
RetryOnlyNotConnected ==
    /\ RetryOnceThenDrop
    /\ [][\A g \in Guilds :
            FirstPlayRaised(g) => voice'[g].state # "connected"]_vars


\* What is left of the queue q once the worker has taken the tracks up to and
\* including t from it; q itself when t was taken before.
After(q, t) ==
    IF t \in Range(q) THEN SubSeq(q, IndexOf(q, t) + 1, Len(q)) ELSE q

\* C14: an exception that escapes _player_loop ends the worker task and nothing
\* else: the step in which the task crashes leaves the session without a live
\* worker, leaves in the queue every track behind the one the worker crashed on,
\* and leaves the registry, the commands in progress and the gate as they are;
\* as long as no start() is called the session stays without a worker (none is
\* relaunched) and its queue loses no track except by stop(); and a start()
\* called then creates a worker with the stop flag clear and the queue as it
\* was, which on its first run takes from the head of that queue.
CrashEndsOnlyWorker ==
    /\ [](\A g \in Guilds : gp[g].task = "crashed" => gp[g].nlive = 0 /\ gp[g].wpc = "off")
    /\ [][\A g \in Guilds :
            /\ (gp[g].task = "live" /\ gp'[g].task = "crashed") =>
                   /\ gp'[g].queue = After(gp[g].queue, gp'[g].source)
                   /\ gp'[g].stop_flag = gp[g].stop_flag
                   /\ \A h \in Guilds \ {g} : gp'[h] = gp[h]
                   /\ UNCHANGED <<players, nextSid, req, ytdl_lock>>
            /\ (gp[g].task = "crashed" /\ ~StartCalled(g)) =>
                   /\ gp'[g].task = "crashed"
                   /\ \/ IsPrefix(gp[g].queue, gp'[g].queue)
                      \/ (\E d \in BOOLEAN : Stop(g, d, TRUE)) /\ gp'[g].queue = <<>>
            /\ (gp[g].task = "crashed" /\ StartCalled(g)) =>
                   /\ gp'[g].task = "live" /\ gp'[g].wpc = "start" /\ gp'[g].nlive = 1
                   /\ ~gp'[g].stop_flag /\ ~gp'[g].cancelReq
                   /\ gp'[g].queue = gp[g].queue
            /\ (gp[g].relaunched /\ gp[g].queue # <<>> /\ ~gp[g].stop_flag
                    /\ WorkerRun(g, TRUE)) =>
                   /\ gp'[g].source \in Range(gp[g].queue)
                   /\ gp'[g].queue = After(gp[g].queue, gp'[g].source)]_vars

\* The worker crashed on track 1 with track 2 in the queue; the worker created
\* by the next start() has taken track 2 and plays it.
CrashEndsOnlyWorkerWitness ==
    /\ gp[1].relaunched /\ gp[1].task = "live" /\ gp[1].wpc = "wait"
    /\ gp[1].source = 2 /\ gp[1].preload = 1 /\ voice[1].playing = 2
    /\ req[1].pc = "done" /\ 1 \notin Range(gp[1].queue)


\* C15: the worker leaves the completion-wait of a track only with the Event of
\* its iteration set, and while it waits that Event is set only by the delivery
\* of the notification of that same track; the delivery of the notification of
\* another playback leaves the worker as it is.  A playback has one
\* notification: while the track plays none is on its way, a worker that waits
\* unreleased has its track playing or the notification on its way (whether the
\* playback finished, failed or was halted), and once released nothing of that
\* playback is outstanding.
NotifiedOncePerAttempt ==
    /\ [](\A g \in Guilds :
            LET p == gp[g]
                v == voice[g]
            IN
            /\ v.playing # None => v.playing \notin v.pending
            /\ (p.task = "live" /\ p.wpc = "wait" /\ ~p.finished) => p.source \in Undelivered(g)
            /\ (p.task = "live" /\ p.wpc = "wait" /\ p.finished) => p.source \notin Undelivered(g))
    /\ [][\A g \in Guilds :
            /\ (Running(g) /\ gp[g].wpc = "wait" /\ gp'[g].wpc # "wait" /\ gp'[g].task = "live")
                   => gp[g].finished /\ gp'[g].wpc = "settle" /\ gp'[g].source = gp[g].source
            /\ (/\ gp[g].task = "live" /\ gp[g].wpc = "wait" /\ ~gp[g].finished
                /\ gp'[g].task = "live" /\ gp'[g].wpc = "wait" /\ gp'[g].finished)
                   => Deliver(g, gp[g].source)
            /\ \A t \in Tracks : (Deliver(g, t) /\ t # gp[g].source) => gp'[g] = gp[g]]_vars

\* The worker waits for the end of track 2, which plays, while the notification
\* of the halted playback of track 1 is still on its way to the loop.
NotifiedOncePerAttemptWitness ==
    /\ gp[1].task = "live" /\ gp[1].wpc = "wait" /\ gp[1].source = 2 /\ ~gp[1].finished
    /\ voice[1].playing = 2 /\ 1 \in voice[1].pending


\* C16: a call of start() made while no stop() is in progress (also right after
\* a stop() has returned) leaves the session running: the stop flag is clear
\* and there is a worker task that is not done and not about to be cancelled,
\* which will take the tracks inserted from then on.
StartMakesRunning ==
    [][\A g \in Guilds :
          (StartCalled(g) /\ Suspended(gp[g]) = 0) =>
              /\ ~gp'[g].stop_flag
              /\ gp'[g].task = "live" /\ ~gp'[g].cancelReq]_vars


\* A step of the worker of guild g that goes through queue.get() at 392.
Dequeues(g) == WorkerRun(g, FALSE) \/ WorkerGet(g, FALSE) \/ SettleDone(g, FALSE)

\* C17: a worker that dequeues the shutdown sentinel ends at once, by return:
\* it takes the sentinel and nothing else from the queue, sets no active track,
\* and leaves the voice client alone (no connection made, no playback started);
\* and a worker that has returned takes nothing from the queue, so the tracks
\* behind the sentinel stay there.
SentinelEndsWorker ==
    /\ [](\A g \in Guilds : gp[g].task = "returned" => gp[g].wpc = "off" /\ gp[g].nlive = 0)
    /\ [][\A g \in Guilds :
            /\ (Dequeues(g) /\ gp[g].queue # <<>> /\ Head(gp[g].queue) = None) =>
                   /\ gp'[g].task = "returned"
                   /\ gp'[g].queue = Tail(gp[g].queue)
                   /\ gp'[g].current = None
                   /\ voice'[g] = voice[g]
            /\ (gp[g].task = "returned" /\ gp'[g].task = "returned") =>
                   IsPrefix(gp[g].queue, gp'[g].queue)]_vars

\* The worker has returned on the sentinel while track 2 was behind it in the
\* queue, after it had played track 1; track 2 is still there.
SentinelEndsWorkerWitness ==
    /\ gp[1].task = "returned" /\ gp[1].queue = <<2>> /\ gp[1].source = None
    /\ gp[1].current = None /\ voice[1].playing = None
    /\ req[1].pc = "done" /\ req[1].guild = 1


\* A step made for guild g: a start() (join, play), a stop(), a skip, a step of
\* its worker, of its transport (a playback that ends, a notification that is
\* delivered), or of a play command of that guild (up to its queue insertion).
ActsFor(g) ==
    \/ StartCalled(g) \/ Stop(g, FALSE, FALSE) \/ Skip(g)
    \/ Worker(g, FALSE) \/ WorkerCancelled(g) \/ Transport(g)
    \/ \E r \in Reqs : req[r].guild = g /\ Request(r)

\* C18: a step made for guild g leaves the session of every other guild h as it
\* is (queue, active track, stop flag, target channel, worker task and the
\* worker's position), as well as its registry entry and its voice client; what
\* a play command of g changes besides its own session is the gate.
GuildsIsolated ==
    [][\A g \in Guilds : \A h \in Guilds \ {g} :
          ActsFor(g) => /\ gp'[h] = gp[h]
                        /\ voice'[h] = voice[h]
                        /\ players'[h] = players[h]]_vars

\* Guild 1 plays track 1 while the session of guild 2, which had a track of its
\* own, was stopped and its worker cancelled.
GuildsIsolatedWitness ==
    /\ gp[1].task = "live" /\ gp[1].wpc = "wait" /\ gp[1].current = 1 /\ voice[1].playing = 1
    /\ gp[2].task = "cancelled" /\ gp[2].stop_flag /\ gp[2].queue = <<>>
    /\ req[2].pc = "done" /\ req[2].guild = 2


\* C19: a track that a play command put in the queue of a session does not
\* stay there for ever: the worker takes it or a stop() discards it, when the
\* loop runs every worker step that is ready and every playback ends.
InsertedTracksLeaveQueue ==
    \A g \in Guilds : \A t \in Tracks :
        (t \in Range(gp[g].queue)) ~> (t \notin Range(gp[g].queue))


\* C20: while the stop flag of a session is set, its worker takes no track
\* from the queue and starts no playback, also while a stop(disconnect=True) is
\* suspended in the connection teardown.
NoWorkWhileStopped ==
    [][\A g \in Guilds :
          gp[g].stop_flag =>
              /\ gp'[g].source \notin Range(gp[g].queue)
              /\ voice'[g].playing # voice[g].playing => voice'[g].playing = None]_vars


\* C21: a stop(disconnect=True) that resumes from the connection teardown
\* cancels only the worker that was alive when it was called: a worker created
\* meanwhile by a start() (which cleared the stop flag that this stop() had set)
\* is not cancelled.
StopSparesNewWorker ==
    [][\A g \in Guilds :
          (/\ Suspended(gp[g]) > 0
           /\ gp[g].task = "live" /\ ~gp[g].stop_flag /\ ~gp[g].cancelReq
           /\ StopResume(g, TRUE))
              => ~gp'[g].cancelReq]_vars

====
